---------------------------- MODULE Spec2Model ----------------------------
(***************************************************************************)
(* Phrase-to-timestamp alignment (src/src/phrase_align.py) and timeline    *)
(* assembly (src/src/timeline.py) of time_codes_videos.                    *)
(*                                                                         *)
(* Text is a sequence of ASCII code points (32 = space, 97..122 = a..z).   *)
(* Time is an integer number of ticks, TicksPerSecond ticks to the second; *)
(* the values the model uses are those on which the program's float        *)
(* arithmetic is exact, so a tick count stands for the float it denotes.   *)
(***************************************************************************)
EXTENDS Integers, Sequences, FiniteSets, TLC

(***************************************************************************)
(* Small helpers.                                                          *)
(***************************************************************************)
Max2(a, b) == IF a >= b THEN a ELSE b

Min2(a, b) == IF a <= b THEN a ELSE b

Range(s) == {s[k] : k \in 1..Len(s)}

RECURSIVE Flatten(_, _, _)
\* " ".join(list[lo - 1 : hi]): the items lo..hi of a list of texts joined
\* by a single space (the list is halved, to keep the evaluation shallow)
Flatten(list, lo, hi) ==
    IF lo > hi THEN <<>>
    ELSE IF lo = hi THEN list[lo]
    ELSE Flatten(list, lo, (lo + hi) \div 2) \o <<32>>
            \o Flatten(list, (lo + hi) \div 2 + 1, hi)

Join(list) == Flatten(list, 1, Len(list))

(***************************************************************************)
(* normalize_text (src/src/normalize.py).                                  *)
(***************************************************************************)
\* \s and str.strip() on ASCII: tab to carriage return, the four
\* separators 28..31, and the space
IsSpace(c) == c \in {9, 10, 11, 12, 13, 28, 29, 30, 31, 32}

\* str.lower() on ASCII
Lower(c) == IF c >= 65 /\ c <= 90 THEN c + 32 ELSE c

\* _PUNCT_RE: a character that is not in [a-z0-9\s]
IsPunct(c) == ~((c >= 97 /\ c <= 122) \/ (c >= 48 /\ c <= 57) \/ IsSpace(c))

RECURSIVE Strip(_)
\* str.strip(): leading and trailing whitespace removed
Strip(s) ==
    IF s = <<>> THEN s
    ELSE IF IsSpace(s[1]) THEN Strip(Tail(s))
    ELSE IF IsSpace(s[Len(s)]) THEN Strip(SubSeq(s, 1, Len(s) - 1))
    ELSE s

\* the positions of s that _WS_RE.sub keeps: every character but the
\* whitespace that follows whitespace
KeptPositions(s) ==
    SelectSeq([k \in 1..Len(s) |-> k],
              LAMBDA k : ~(IsSpace(s[k]) /\ k > 1 /\ IsSpace(s[k - 1])))

\* _WS_RE.sub(" ", s): every maximal run of whitespace becomes one space
CollapseWs(s) ==
    [n \in 1..Len(KeptPositions(s)) |->
        IF IsSpace(s[KeptPositions(s)[n]]) THEN 32 ELSE s[KeptPositions(s)[n]]]

\* a normalization that leaves out the last strip
normalize_text_untrimmed(s) ==
    LET lowered == Strip([k \in 1..Len(s) |-> Lower(s[k])])
        nopunct == [k \in 1..Len(lowered) |->
                       IF IsPunct(lowered[k]) THEN 32 ELSE lowered[k]]
    IN  CollapseWs(nopunct)

\* lines 17-20
normalize_text(s) ==
    LET lowered == Strip([k \in 1..Len(s) |-> Lower(s[k])])
        nopunct == [k \in 1..Len(lowered) |->
                       IF IsPunct(lowered[k]) THEN 32 ELSE lowered[k]]
    IN  Strip(CollapseWs(nopunct))

\* the positions of s where a maximal run of non-whitespace begins
TokenStarts(s) ==
    SelectSeq([k \in 1..Len(s) |-> k],
              LAMBDA k : ~IsSpace(s[k]) /\ (k = 1 \/ IsSpace(s[k - 1])))

\* where the run of non-whitespace that begins at position a ends
TokenEnd(s, a) ==
    CHOOSE e \in a..Len(s) :
        /\ \A m \in a..e : ~IsSpace(s[m])
        /\ e = Len(s) \/ IsSpace(s[e + 1])

\* str.split(): the maximal runs of non-whitespace, in order
Split(s) ==
    [n \in 1..Len(TokenStarts(s)) |->
        SubSeq(s, TokenStarts(s)[n], TokenEnd(s, TokenStarts(s)[n]))]

(***************************************************************************)
(* The similarity scores: rapidfuzz's fuzz.ratio and fuzz.token_set_ratio, *)
(* as called with int() around them in phrase_align.py.                    *)
(***************************************************************************)
RECURSIVE LcsRowFill(_, _, _, _)
\* one row of the longest-common-subsequence table: row[j + 1] is the LCS
\* length of the text read so far and the first j characters of t
LcsRowFill(prev, c, t, acc) ==
    LET j == Len(acc)
    IN  IF j > Len(t) THEN acc
        ELSE LcsRowFill(prev, c, t,
                Append(acc, IF c = t[j] THEN prev[j] + 1
                            ELSE Max2(prev[j + 1], acc[j])))

RECURSIVE LcsRows(_, _, _, _)
LcsRows(s, t, k, row) ==
    IF k > Len(s) THEN row[Len(t) + 1]
    ELSE LcsRows(s, t, k + 1, LcsRowFill(row, s[k], t, <<0>>))

Lcs(s, t) == LcsRows(s, t, 1, [j \in 1..(Len(t) + 1) |-> 0])

\* Indel distance: insertions and deletions turning s into t
IndelDistance(s, t) == Len(s) + Len(t) - 2 * Lcs(s, t)

\* int(100 - 100 * dist / lensum), 100 when lensum is 0
NormDistance(dist, lensum) ==
    IF lensum > 0 THEN (100 * (lensum - dist)) \div lensum ELSE 100

\* int(fuzz.ratio(s, t))
ratio(s, t) == NormDistance(IndelDistance(s, t), Len(s) + Len(t))

RECURSIVE LexLess(_, _)
\* s < t in Python's order of strings
LexLess(s, t) ==
    IF t = <<>> THEN FALSE
    ELSE IF s = <<>> THEN TRUE
    ELSE IF s[1] # t[1] THEN s[1] < t[1]
    ELSE LexLess(Tail(s), Tail(t))

RECURSIVE SortedTokens(_)
\* sorted(tokens) for a set of tokens
SortedTokens(S) ==
    IF S = {} THEN <<>>
    ELSE LET m == CHOOSE x \in S : \A y \in S \ {x} : LexLess(x, y)
         IN  <<m>> \o SortedTokens(S \ {m})

\* the score from the lengths of the joined token sets and the distance of
\* the two joined differences: the best of the three comparisons
TokenSetScore(sect_len, ab_len, ba_len, dist) ==
    LET sep == IF sect_len # 0 THEN 1 ELSE 0
        sect_ab_len == sect_len + sep + ab_len
        sect_ba_len == sect_len + sep + ba_len
        result == NormDistance(dist, sect_ab_len + sect_ba_len)
        sect_ab_ratio == NormDistance(sep + ab_len, sect_len + sect_ab_len)
        sect_ba_ratio == NormDistance(sep + ba_len, sect_len + sect_ba_len)
    IN  IF sect_len = 0 THEN result
        ELSE Max2(result, Max2(sect_ab_ratio, sect_ba_ratio))

\* the score of two token sets, neither empty
TokenSetCompare(intersect, diff_ab, diff_ba) ==
    IF intersect # {} /\ (diff_ab = {} \/ diff_ba = {}) THEN 100
    ELSE TokenSetScore(Len(Join(SortedTokens(intersect))),
                       Len(Join(SortedTokens(diff_ab))),
                       Len(Join(SortedTokens(diff_ba))),
                       IndelDistance(Join(SortedTokens(diff_ab)),
                                     Join(SortedTokens(diff_ba))))

\* the score of the token sets of two texts
TokenSets(tokens_a, tokens_b) ==
    IF tokens_a = {} \/ tokens_b = {} THEN 0
    ELSE TokenSetCompare(tokens_a \cap tokens_b, tokens_a \ tokens_b,
                         tokens_b \ tokens_a)

\* int(fuzz.token_set_ratio(s, t))
token_set_ratio(s, t) == TokenSets(Range(Split(s)), Range(Split(t)))

(***************************************************************************)
(* Python's round(n / d) for d > 0: to the nearest integer, a tie to the   *)
(* even one.                                                               *)
(***************************************************************************)
PyRound(n, d) ==
    LET fl == n \div d
        rem == n % d
    IN  IF 2 * rem < d THEN fl
        ELSE IF 2 * rem > d THEN fl + 1
        ELSE IF fl % 2 = 0 THEN fl ELSE fl + 1

\* Optional values: None, or a value wrapped in a one-element tuple
None == <<>>

Some(x) == <<x>>

(***************************************************************************)
(* The program's state.                                                    *)
(*   rules, transcript, similarity_threshold: the arguments of             *)
(*     resolve_phrase_start_times; audio_dur, fps: what build_timeline     *)
(*     reads (ffprobe's duration, the --fps option).                       *)
(*   pc: where the run is.                                                 *)
(*   words_raw, words_norm, words_start, seg_norm, cursor_word_idx, idx,   *)
(*     resolved: the locals of resolve_phrase_start_times.                 *)
(*   range_log: for each pass of the loop, the cursor it began with, the   *)
(*     coarse locator's answer and the range searched (a history of the    *)
(*     locals, kept for checking).                                         *)
(*   error: the exception raised, None when none.                          *)
(*   result: Some(list) once resolve_phrase_start_times has returned.      *)
(*   matches, i, items: the argument and the locals of build_timeline.     *)
(*   timeline: the returned Timeline's items, None until it returns.       *)
(*   norm_in: the argument of normalize_text; norm_out: what its calls     *)
(*     returned so far, each call after the first made on the last result. *)
(*   ref_segments, ref_idx, refined: the argument and the locals of        *)
(*     refine_segments_sentence_split; ref_result: Some(list) once it has  *)
(*     returned; ref_log: for each pass of its loop, next_id when the pass *)
(*     began and the number of records the pass appended (a history of the *)
(*     locals, kept for checking).                                         *)
(***************************************************************************)
VARIABLES rules, transcript, similarity_threshold, audio_dur, fps,
          pc, words_raw, words_norm, words_start, seg_norm,
          cursor_word_idx, idx, resolved, range_log, error, result,
          matches, i, items, timeline,
          norm_in, norm_out, ref_segments, ref_idx, refined, ref_result,
          ref_log

inputs == <<rules, transcript, similarity_threshold, audio_dur, fps>>

align_locals == <<words_raw, words_norm, words_start, seg_norm,
                  cursor_word_idx, idx, resolved, range_log>>

timeline_locals == <<matches, i, items, timeline>>

normalize_locals == <<norm_in, norm_out>>

refine_locals == <<ref_segments, ref_idx, refined, ref_result, ref_log>>

vars == <<rules, transcript, similarity_threshold, audio_dur, fps,
          pc, words_raw, words_norm, words_start, seg_norm,
          cursor_word_idx, idx, resolved, range_log, error, result,
          matches, i, items, timeline,
          norm_in, norm_out, ref_segments, ref_idx, refined, ref_result,
          ref_log>>

(***************************************************************************)
(* _best_window_in_range (src/src/phrase_align.py).  Word indices are      *)
(* Python's, from 0; word k of a list is element k + 1 of the sequence.    *)
(***************************************************************************)
\* a shortest window without the floor of three words
min_len_unfloored(phrase_len) == Max2(1, PyRound(phrase_len * 3, 4))

\* line 35: max(3, int(round(phrase_len * 0.75)))
min_len(phrase_len) == Max2(3, PyRound(phrase_len * 3, 4))

max_len(phrase_len) == Max2(min_len(phrase_len), PyRound(phrase_len * 5, 4) + 2)

\* " ".join(words[i : i + wlen])
WindowText(words, i0, wlen) == Join(SubSeq(words, i0 + 1, i0 + wlen))

\* a comparison of keys that looks at the two scores only
KeyLessOnScores(k1, k2) ==
    \/ k1[1] < k2[1]
    \/ k1[1] = k2[1] /\ k1[2] <= k2[2]

\* key < best for the tuples (-ts, -r, i, wlen)
KeyLess(k1, k2) ==
    \/ k1[1] < k2[1]
    \/ k1[1] = k2[1] /\ k1[2] < k2[2]
    \/ k1[1] = k2[1] /\ k1[2] = k2[2] /\ k1[3] < k2[3]
    \/ k1[1] = k2[1] /\ k1[2] = k2[2] /\ k1[3] = k2[3] /\ k1[4] < k2[4]

\* the key (-ts, -r, i, wlen) of a kept window
KeyOf(rec) == <<-rec.token_set_ratio, -rec.ratio, rec.word_index, rec.word_len>>

\* a record that takes its start from the last word of the window
WindowRecLastWord(c, i0, wlen, ts, r) ==
    [word_index |-> i0,
     word_len |-> wlen,
     token_set_ratio |-> ts,
     ratio |-> r,
     start |-> c.words_start[i0 + wlen],
     matched_window_text |-> WindowText(c.words_raw, i0, wlen)]

\* the record kept for a window that clears the threshold
WindowRec(c, i0, wlen, ts, r) ==
    [word_index |-> i0,
     word_len |-> wlen,
     token_set_ratio |-> ts,
     ratio |-> r,
     start |-> c.words_start[i0 + 1],
     matched_window_text |-> WindowText(c.words_raw, i0, wlen)]

\* lines 56-66: the window replaces the best one so far when its key is less
KeepBetter(best, rec) ==
    IF best = None \/ KeyLess(KeyOf(rec), KeyOf(best[1])) THEN Some(rec) ELSE best

\* lines 50-66: a window of token-set score ts is skipped or compared
ConsiderScored(c, wlen, i0, best, ts) ==
    IF ts < c.threshold THEN best
    ELSE KeepBetter(best,
                    WindowRec(c, i0, wlen, ts,
                              ratio(c.phrase_norm, WindowText(c.words_norm, i0, wlen))))

RECURSIVE ScanStarts(_, _, _, _, _)
\* the inner loop: for i in range(lo, hi + 1), each window compared in
\* turn with the best so far (the first half of the range, then the second
\* half from what the first gave, to keep the evaluation shallow)
ScanStarts(c, wlen, lo, hi, best) ==
    IF lo > hi THEN best
    ELSE IF lo = hi
         THEN ConsiderScored(c, wlen, lo, best,
                  token_set_ratio(c.phrase_norm, WindowText(c.words_norm, lo, wlen)))
         ELSE LET first == ScanStarts(c, wlen, lo, (lo + hi) \div 2, best)
              IN  IF first = None
                  THEN ScanStarts(c, wlen, (lo + hi) \div 2 + 1, hi, None)
                  ELSE ScanStarts(c, wlen, (lo + hi) \div 2 + 1, hi, first)

RECURSIVE ScanLengths(_, _, _, _)
\* the outer loop: for wlen in range(min_len, max_len + 1), with its break
ScanLengths(c, wlen, maxlen, best) ==
    IF wlen > maxlen \/ c.start_limit + wlen > c.end_limit THEN best
    ELSE ScanLengths(c, wlen + 1, maxlen,
                     ScanStarts(c, wlen, c.start_limit, c.end_limit - wlen, best))

\* a search that does not look whether the phrase has a token
best_window_in_range_any_phrase(phrase_norm, phrase_len, wnorm, wraw, wstart, search_start, search_end, threshold) ==
    ScanLengths([phrase_norm |-> phrase_norm,
                 words_norm |-> wnorm,
                 words_raw |-> wraw,
                 words_start |-> wstart,
                 end_limit |-> Min2(Len(wnorm), search_end),
                 start_limit |-> Max2(0, search_start),
                 threshold |-> threshold],
                min_len(phrase_len), max_len(phrase_len), None)

\* None, or Some(best_rec)
best_window_in_range(phrase_norm, phrase_len, wnorm, wraw, wstart, search_start, search_end, threshold) ==
    IF phrase_len <= 0 THEN None
    ELSE ScanLengths([phrase_norm |-> phrase_norm,
                      words_norm |-> wnorm,
                      words_raw |-> wraw,
                      words_start |-> wstart,
                      end_limit |-> Min2(Len(wnorm), search_end),
                      start_limit |-> Max2(0, search_start),
                      threshold |-> threshold],
                     min_len(phrase_len), max_len(phrase_len), None)

(***************************************************************************)
(* resolve_phrase_start_times (src/src/phrase_align.py).                   *)
(***************************************************************************)
\* a segment that replaces the best so far on an equal score too
BetterSegmentOrEqual(best, seg, score) ==
    IF score >= best.score THEN [seg |-> Some(seg), score |-> score] ELSE best

\* lines 141-143: a segment replaces the best so far on a higher score only
BetterSegment(best, seg, score) ==
    IF score > best.score THEN [seg |-> Some(seg), score |-> score] ELSE best

RECURSIVE ScanSegments(_, _, _, _, _)
\* lines 137-143: the loop over the segments, those that end at or before
\* the cursor skipped
ScanSegments(segs, k, phrase_norm, cursor, best) ==
    IF k > Len(segs) THEN best
    ELSE IF segs[k].word_end <= cursor
         THEN ScanSegments(segs, k + 1, phrase_norm, cursor, best)
         ELSE ScanSegments(segs, k + 1, phrase_norm, cursor,
                  BetterSegment(best, segs[k],
                                token_set_ratio(phrase_norm, segs[k].text_norm)))

\* the coarse locator: [seg |-> None or Some(segment), score |-> its score]
BestSegment(segs, phrase_norm, cursor) ==
    ScanSegments(segs, 1, phrase_norm, cursor, [seg |-> None, score |-> -1])

\* the padding, in words, around the coarse segment
SegmentPadding == 20

\* the least score a coarse segment needs, whatever the threshold
SegmentScoreFloor == 40

\* how far below the threshold a coarse segment may score
SegmentScoreSlack == 15

\* a range that is put around the segment whatever the cursor
RangeAroundSegmentOnly(b, cursor, word_count, threshold) ==
    IF b.seg # None
       /\ b.score >= Max2(SegmentScoreFloor, threshold - SegmentScoreSlack)
    THEN [search_start |-> b.seg[1].word_start - SegmentPadding,
          search_end |-> Min2(word_count, b.seg[1].word_end + SegmentPadding),
          best_seg |-> b.seg,
          best_seg_score |-> b.score]
    ELSE [search_start |-> cursor,
          search_end |-> word_count,
          best_seg |-> b.seg,
          best_seg_score |-> b.score]

\* lines 146-153: the range of words searched, [search_start, search_end),
\* given the coarse locator's answer b (kept with it, for the log)
RangeAround(b, cursor, word_count, threshold) ==
    IF b.seg # None
       /\ b.score >= Max2(SegmentScoreFloor, threshold - SegmentScoreSlack)
    THEN [search_start |-> Max2(cursor, b.seg[1].word_start - SegmentPadding),
          search_end |-> Min2(word_count, b.seg[1].word_end + SegmentPadding),
          best_seg |-> b.seg,
          best_seg_score |-> b.score]
    ELSE [search_start |-> cursor,
          search_end |-> word_count,
          best_seg |-> b.seg,
          best_seg_score |-> b.score]

SearchRange(segs, phrase_norm, cursor, word_count, threshold) ==
    RangeAround(BestSegment(segs, phrase_norm, cursor), cursor, word_count, threshold)

\* the cursor that stays on the matched word
NextCursorSameWord(best_rec) == best_rec.word_index

\* the cursor that goes back to the first word
NextCursorAtFirstWord(best_rec) == 0

\* the cursor after a phrase is resolved
NextCursor(best_rec) == best_rec.word_index + 1

\* the resolved-phrase record appended for rule number index (from 0)
ResolvedPhrase(index, rule, best_rec) ==
    [index |-> index,
     image |-> rule.image,
     text |-> rule.text,
     start |-> best_rec.start,
     similarity |-> [token_set_ratio |-> best_rec.token_set_ratio,
                     ratio |-> best_rec.ratio],
     match |-> [matched_window_text |-> best_rec.matched_window_text,
                word_index |-> best_rec.word_index,
                word_len |-> best_rec.word_len]]

\* the post-pass check that never fails
StartsOutOfOrderUnchecked(list) == FALSE

\* the post-pass check: some start precedes its predecessor's
StartsOutOfOrder(list) ==
    \E k \in 2..Len(list) : list[k].start < list[k - 1].start

\* an entry that does not look whether the transcript has words
BeginUnchecked ==
    /\ pc = "align_entry"
    /\ pc' = "align_loop"
    /\ words_raw' = [k \in 1..Len(transcript.words) |->
                        Strip(transcript.words[k].text)]
    /\ words_norm' = [k \in 1..Len(transcript.words) |->
                         normalize_text(Strip(transcript.words[k].text))]
    /\ words_start' = [k \in 1..Len(transcript.words) |->
                          transcript.words[k].start]
    /\ seg_norm' = [k \in 1..Len(transcript.segments) |->
                       [id |-> transcript.segments[k].id,
                        word_start |-> transcript.segments[k].word_start,
                        word_end |-> transcript.segments[k].word_end,
                        text_norm |-> normalize_text(transcript.segments[k].text)]]
    /\ cursor_word_idx' = 0
    /\ idx' = 0
    /\ resolved' = <<>>
    /\ range_log' = <<>>
    /\ UNCHANGED <<inputs, normalize_locals, refine_locals, error, result, timeline_locals>>

\* lines 102-127: the transcript is read, words and segments normalized
Begin ==
    /\ pc = "align_entry"
    /\ IF transcript.words = <<>>
       THEN /\ pc' = "raised"
            /\ error' = Some([type |-> "no_words"])
            /\ UNCHANGED align_locals
       ELSE /\ pc' = "align_loop"
            /\ words_raw' = [k \in 1..Len(transcript.words) |->
                                Strip(transcript.words[k].text)]
            /\ words_norm' = [k \in 1..Len(transcript.words) |->
                                 normalize_text(Strip(transcript.words[k].text))]
            /\ words_start' = [k \in 1..Len(transcript.words) |->
                                  transcript.words[k].start]
            /\ seg_norm' = [k \in 1..Len(transcript.segments) |->
                               [id |-> transcript.segments[k].id,
                                word_start |-> transcript.segments[k].word_start,
                                word_end |-> transcript.segments[k].word_end,
                                text_norm |-> normalize_text(transcript.segments[k].text)]]
            /\ cursor_word_idx' = 0
            /\ idx' = 0
            /\ resolved' = <<>>
            /\ range_log' = <<>>
            /\ UNCHANGED error
    /\ UNCHANGED <<inputs, normalize_locals, refine_locals, result, timeline_locals>>

\* what range_log keeps of a pass: the cursor it began with, the coarse
\* locator's answer and the range searched
LogEntry(range) ==
    [cursor |-> cursor_word_idx,
     search_start |-> range.search_start,
     search_end |-> range.search_end,
     best_seg |-> range.best_seg,
     best_seg_score |-> range.best_seg_score]

\* an aligner that leaves an unresolved phrase out and goes on
RecordSkipping(range, best) ==
    IF best = None
    THEN /\ idx' = idx + 1
         /\ range_log' = Append(range_log, LogEntry(range))
         /\ UNCHANGED <<pc, error, cursor_word_idx, resolved>>
    ELSE /\ cursor_word_idx' = NextCursor(best[1])
         /\ resolved' = Append(resolved, ResolvedPhrase(idx, rules[idx + 1], best[1]))
         /\ range_log' = Append(range_log, LogEntry(range))
         /\ idx' = idx + 1
         /\ UNCHANGED <<pc, error>>

\* lines 166-190: the phrase is unresolved, or recorded and the cursor moved
Record(range, best) ==
    IF best = None
    THEN /\ pc' = "raised"
         /\ error' = Some([type |-> "unresolved",
                           index |-> idx,
                           phrase |-> rules[idx + 1].text,
                           threshold |-> similarity_threshold])
         /\ range_log' = Append(range_log, LogEntry(range))
         /\ UNCHANGED <<cursor_word_idx, idx, resolved>>
    ELSE /\ cursor_word_idx' = NextCursor(best[1])
         /\ resolved' = Append(resolved, ResolvedPhrase(idx, rules[idx + 1], best[1]))
         /\ range_log' = Append(range_log, LogEntry(range))
         /\ idx' = idx + 1
         /\ UNCHANGED <<pc, error>>

\* lines 145-164: the search range of a phrase and the search in it
Search(phrase_norm, range) ==
    Record(range,
           best_window_in_range(phrase_norm, Len(Split(phrase_norm)), words_norm,
                                words_raw, words_start, range.search_start,
                                range.search_end, similarity_threshold))

\* lines 134-164: the coarse locator, then the search
Locate(phrase_norm) ==
    Search(phrase_norm,
           SearchRange(seg_norm, phrase_norm, cursor_word_idx, Len(words_norm),
                       similarity_threshold))

\* lines 129-190: one pass of the loop, for rule number idx
ResolveStep ==
    /\ pc = "align_loop"
    /\ idx < Len(rules)
    /\ Locate(normalize_text(rules[idx + 1].text))
    /\ UNCHANGED <<inputs, normalize_locals, refine_locals, words_raw, words_norm, words_start, seg_norm,
                   result, timeline_locals>>

\* lines 192-200: the post-pass check, then the return
CheckOrder ==
    /\ pc = "align_loop"
    /\ idx = Len(rules)
    /\ IF StartsOutOfOrder(resolved)
       THEN /\ pc' = "raised"
            /\ error' = Some([type |-> "not_monotonic"])
            /\ UNCHANGED result
       ELSE /\ pc' = "align_returned"
            /\ result' = Some(resolved)
            /\ UNCHANGED error
    /\ UNCHANGED <<inputs, normalize_locals, refine_locals, align_locals, timeline_locals>>

(***************************************************************************)
(* build_timeline (src/src/timeline.py), in phrase mode                    *)
(* (matches_are_phrases=True, the only mode main.py uses).                 *)
(***************************************************************************)
\* the unit of time: 1/120 s, so that a frame is a whole number of ticks at
\* every frame rate the model uses
TicksPerSecond == 8 * 15

\* 1.0 / fps, in ticks
FrameTicks == TicksPerSecond \div fps

\* q(t): t quantized to the nearest frame boundary
q(t) == PyRound(t * fps, TicksPerSecond) * FrameTicks

\* an item start that is not clamped at 0
ItemStartUnclamped(m) == q(m.start)

\* lines 68-70: the start of the item of match m
ItemStart(m) == IF q(m.start) < 0 THEN 0 ELSE q(m.start)

\* lines 74-81: the end of the item of match number k (from 0)
ItemEnd(ms, k, start) ==
    LET end == IF k + 1 < Len(ms) THEN q(ms[k + 2].start) ELSE q(audio_dur)
    IN  IF end <= start THEN Min2(q(start + FrameTicks), q(audio_dur)) ELSE end

\* an item that carries the image of the last match
TimelineItemLastImage(ms, k) ==
    [start |-> ItemStart(ms[k + 1]),
     end |-> ItemEnd(ms, k, ItemStart(ms[k + 1])),
     image |-> ms[Len(ms)].image,
     source |-> [phrase_index |-> ms[k + 1].index]]

\* lines 84-97: the item appended for match number k (from 0)
TimelineItem(ms, k) ==
    [start |-> ItemStart(ms[k + 1]),
     end |-> ItemEnd(ms, k, ItemStart(ms[k + 1])),
     image |-> ms[k + 1].image,
     source |-> [phrase_index |-> ms[k + 1].index]]

\* lines 71-72: the match is left out of the timeline
Dropped(m) == ItemStart(m) > audio_dur

\* a clamp that leaves every end as it is
ClampedUnchanged(list) == list

\* lines 115-117: the final clamp of every item's end
Clamped(list) ==
    [k \in 1..Len(list) |->
        IF list[k].end > audio_dur
        THEN [list[k] EXCEPT !.end = q(audio_dur)]
        ELSE list[k]]

\* main.py, lines 136-141: the resolved phrases go to build_timeline
CallBuildTimeline ==
    /\ pc = "align_returned"
    /\ matches' = result[1]
    /\ pc' = "timeline_entry"
    /\ UNCHANGED <<inputs, normalize_locals, refine_locals, align_locals, error, result, i, items, timeline>>

\* lines 48-63: no match gives the empty timeline at once
EnterTimeline ==
    /\ pc = "timeline_entry"
    /\ items' = <<>>
    /\ i' = 0
    /\ IF matches = <<>>
       THEN pc' = "timeline_returned" /\ timeline' = Some(<<>>)
       ELSE pc' = "timeline_loop" /\ UNCHANGED timeline
    /\ UNCHANGED <<inputs, normalize_locals, refine_locals, align_locals, error, result, matches>>

\* lines 66-112: one pass of the loop, for match number i
BuildItem ==
    /\ pc = "timeline_loop"
    /\ i < Len(matches)
    /\ items' = IF Dropped(matches[i + 1]) THEN items
                ELSE Append(items, TimelineItem(matches, i))
    /\ i' = i + 1
    /\ UNCHANGED <<inputs, normalize_locals, refine_locals, align_locals, error, result, pc, matches, timeline>>

\* lines 114-127: the final clamp, no sort in phrase mode, and the return
FinishTimeline ==
    /\ pc = "timeline_loop"
    /\ i = Len(matches)
    /\ items' = Clamped(items)
    /\ timeline' = Some(items')
    /\ pc' = "timeline_returned"
    /\ UNCHANGED <<inputs, normalize_locals, refine_locals, align_locals, error, result, matches, i>>

(***************************************************************************)
(* The inputs the model runs the program on.                               *)
(***************************************************************************)
\* the longest transcript, in words, of the general inputs
MaxWords == 4

\* the longest rule list of the general inputs
MaxRules == 2

\* raw transcript words: "ab", "Cd," and "e-f"
Vocabulary == {<<97, 98>>, <<67, 100, 44>>, <<101, 45, 102>>}

\* raw rule texts: "ab cd" and "Cd e f"
Phrases == {<<97, 98, 32, 99, 100>>, <<67, 100, 32, 101, 32, 102>>}

\* the default threshold and a lower one
Thresholds == {60, 85}

\* the image of the rule at position k
ImageOf(k) == <<"img1.png", "img2.png", "img3.png", "img4.png">>[k]

\* word start times, in ticks, by position: half a second apart, two words
\* at a time half a second apart, or alternating between two times (a
\* transcript that is not chronological)
StartProfiles == {"regular", "paired", "zigzag"}

WordStart(profile, k) ==
    IF profile = "regular" THEN (k - 1) * 60
    ELSE IF profile = "paired" THEN ((k - 1) \div 2) * 60
    ELSE 60 * (k % 2)

SeqsUpTo(S, n) == UNION {[1..k -> S] : k \in 0..n}

\* one segment over the whole transcript
SegmentsOf(texts) ==
    IF texts = <<>> THEN <<>>
    ELSE <<[id |-> 0, word_start |-> 0, word_end |-> Len(texts), text |-> Join(texts)]>>

\* the rule list of the phrases ph, and the words of the texts timed by a
\* profile
RulesOf(ph) == [k \in 1..Len(ph) |-> [image |-> ImageOf(k), text |-> ph[k]]]

WordsOf(texts, profile) ==
    [k \in 1..Len(texts) |-> [text |-> texts[k], start |-> WordStart(profile, k)]]

\* hello, world, goodbye, now
RefHello == <<104, 101, 108, 108, 111>>

RefWorld == <<119, 111, 114, 108, 100>>

RefGoodbye == <<103, 111, 111, 100, 98, 121, 101>>

RefNow == <<110, 111, 119>>

\* the reference scenario: two rules, four words, no segments, threshold 85,
\* six seconds of audio at 30 frames a second
ReferenceScenario ==
    [rules |-> <<[image |-> "a.png", text |-> Join(<<RefHello, RefWorld>>)],
                 [image |-> "b.png", text |-> Join(<<RefGoodbye, RefNow>>)]>>,
     transcript |->
         [words |-> <<[text |-> RefHello, start |-> 0],
                      [text |-> RefWorld, start |-> 60],
                      [text |-> RefGoodbye, start |-> 600],
                      [text |-> RefNow, start |-> 660]>>,
          segments |-> <<>>],
     similarity_threshold |-> 85,
     audio_dur |-> 720,
     fps |-> 30]

\* normalize_text and refine_segments_sentence_split are not running
InitOthers ==
    /\ norm_in = <<>>
    /\ norm_out = <<>>
    /\ ref_segments = <<>>
    /\ ref_idx = 0
    /\ refined = <<>>
    /\ ref_result = None
    /\ ref_log = <<>>

\* the locals before the run starts
InitLocals ==
    /\ pc = "align_entry"
    /\ words_raw = <<>>
    /\ words_norm = <<>>
    /\ words_start = <<>>
    /\ seg_norm = <<>>
    /\ cursor_word_idx = 0
    /\ idx = 0
    /\ resolved = <<>>
    /\ range_log = <<>>
    /\ error = None
    /\ result = None
    /\ matches = <<>>
    /\ i = 0
    /\ items = <<>>
    /\ timeline = None
    /\ InitOthers

\* the general inputs: every transcript and rule list within the bounds,
\* two seconds of audio at 4 frames a second
InitGeneral ==
    /\ \E texts \in SeqsUpTo(Vocabulary, MaxWords), profile \in StartProfiles :
          transcript = [words |-> WordsOf(texts, profile),
                        segments |-> SegmentsOf(texts)]
    /\ \E ph \in SeqsUpTo(Phrases, MaxRules) : rules = RulesOf(ph)
    /\ similarity_threshold \in Thresholds
    /\ audio_dur = 240
    /\ fps = 4
    /\ InitLocals

InitReference ==
    /\ rules = ReferenceScenario.rules
    /\ transcript = ReferenceScenario.transcript
    /\ similarity_threshold = ReferenceScenario.similarity_threshold
    /\ audio_dur = ReferenceScenario.audio_dur
    /\ fps = ReferenceScenario.fps
    /\ InitLocals

\* "z", a word of no phrase
FillerWord == <<122>>

Filler(n) == [k \in 1..n |-> FillerWord]

\* how a long transcript begins: "ab"; "ab Cd, z"; "z"
Heads == {<<<<97, 98>>>>,
          <<<<97, 98>>, <<67, 100, 44>>, FillerWord>>,
          <<FillerWord>>}

\* how a long transcript ends: "ab Cd, e-f"; "Cd, e-f z"; "z z z"
Tails == {<<<<97, 98>>, <<67, 100, 44>>, <<101, 45, 102>>>>,
          <<<<67, 100, 44>>, <<101, 45, 102>>, FillerWord>>,
          <<FillerWord, FillerWord, FillerWord>>}

\* the filler between the two, in words: around the segment padding
FillerLengths == {SegmentPadding - 2, SegmentPadding, SegmentPadding + 2}

\* the segments of a long transcript: its head, its filler and its tail,
\* each with the range of words it holds
LongSegments(head, n, tail) ==
    <<[id |-> 0, word_start |-> 0, word_end |-> Len(head), text |-> Join(head)],
      [id |-> 1, word_start |-> Len(head), word_end |-> Len(head) + n,
       text |-> Join(Filler(n))],
      [id |-> 2, word_start |-> Len(head) + n,
       word_end |-> Len(head) + n + Len(tail), text |-> Join(tail)]>>

\* the long inputs: transcripts longer than the segment padding, in three
\* segments, with every rule list within the bounds
InitLong ==
    /\ \E head \in Heads, n \in FillerLengths, tail \in Tails :
          /\ transcript = [words |-> WordsOf(head \o Filler(n) \o tail, "regular"),
                           segments |-> LongSegments(head, n, tail)]
          /\ audio_dur = 60 * (Len(head) + n + Len(tail))
    /\ \E ph \in SeqsUpTo(Phrases, MaxRules) : rules = RulesOf(ph)
    /\ similarity_threshold \in Thresholds
    /\ fps = 4
    /\ InitLocals

\* raw rule texts for the edges of the window lengths: "?!", which
\* normalizes to no token, "ab cd", and "ab cd e f ab" of five tokens
EdgePhrases ==
    { <<63, 33>>,
      <<97, 98, 32, 99, 100>>,
      <<97, 98, 32, 99, 100, 32, 101, 32, 102, 32, 97, 98>> }

\* the threshold that every score reaches, and the default one
EdgeThresholds == {0, 85}

\* the general transcripts against the edge phrases and thresholds
InitEdge ==
    /\ \E texts \in SeqsUpTo(Vocabulary, MaxWords) :
          transcript = [words |-> WordsOf(texts, "regular"),
                        segments |-> SegmentsOf(texts)]
    /\ \E ph \in SeqsUpTo(EdgePhrases, MaxRules) : rules = RulesOf(ph)
    /\ similarity_threshold \in EdgeThresholds
    /\ audio_dur = 240
    /\ fps = 4
    /\ InitLocals

Init == InitGeneral \/ InitReference \/ InitLong \/ InitEdge

Next ==
    \/ Begin
    \/ ResolveStep
    \/ CheckOrder
    \/ CallBuildTimeline
    \/ EnterTimeline
    \/ BuildItem
    \/ FinishTimeline

Spec == Init /\ [][Next]_vars

(***************************************************************************)
(* build_timeline on its own: every list of resolved phrases within the    *)
(* bounds, chronological or not, with times on the half-frame grid.        *)
(***************************************************************************)
\* the longest list of resolved phrases given to build_timeline
MaxMatches == 3

\* phrase starts, in ticks: before 0, on frame boundaries and half way
\* between two (a frame is 30 ticks at 4 frames a second, 15 at 8)
TimelineStarts == {-30, 0, 15, 30, 45, 60, 90}

\* audio durations, in ticks: one that q rounds up, one on a frame boundary
\* and one that q rounds down at 4 frames a second
AudioDurations == {45, 60, 75}

FrameRates == {4, 8}

MatchesOf(starts) ==
    [k \in 1..Len(starts) |->
        [index |-> k - 1, image |-> ImageOf(k), start |-> starts[k]]]

InitTimeline ==
    /\ \E starts \in SeqsUpTo(TimelineStarts, MaxMatches) : matches = MatchesOf(starts)
    /\ audio_dur \in AudioDurations
    /\ fps \in FrameRates
    /\ pc = "timeline_entry"
    /\ rules = <<>>
    /\ transcript = [words |-> <<>>, segments |-> <<>>]
    /\ similarity_threshold = 85
    /\ words_raw = <<>>
    /\ words_norm = <<>>
    /\ words_start = <<>>
    /\ seg_norm = <<>>
    /\ cursor_word_idx = 0
    /\ idx = 0
    /\ resolved = <<>>
    /\ range_log = <<>>
    /\ error = None
    /\ result = None
    /\ i = 0
    /\ items = <<>>
    /\ timeline = None
    /\ InitOthers

NextTimeline ==
    \/ EnterTimeline
    \/ BuildItem
    \/ FinishTimeline

SpecTimeline == InitTimeline /\ [][NextTimeline]_vars

(***************************************************************************)
(* Properties of build_timeline, checked under SpecTimeline.               *)
(***************************************************************************)
NonDecreasingStarts(list) ==
    \A k \in 1..(Len(list) - 1) : list[k].start <= list[k + 1].start

RECURSIVE SumOfDurations(_)
SumOfDurations(list) ==
    IF list = <<>> THEN 0
    ELSE (list[1].end - list[1].start) + SumOfDurations(Tail(list))

ImagesOf(list) == [k \in 1..Len(list) |-> list[k].image]

\* the match is kept: its quantized start, clamped at 0, is not past the audio
KeptInTimeline(m) ==
    (IF q(m.start) < 0 THEN 0 ELSE q(m.start)) <= audio_dur

\* C3: in the returned timeline of phrases with non-decreasing starts, each
\* item ends exactly where the next one starts.
C3_Contiguous ==
    (timeline # None /\ NonDecreasingStarts(matches)) =>
        \A k \in 1..(Len(timeline[1]) - 1) :
            timeline[1][k].end = timeline[1][k + 1].start

\* C4: every item of the returned timeline lasts at least one frame.
C4_AtLeastOneFrame ==
    timeline # None =>
        \A k \in 1..Len(timeline[1]) :
            timeline[1][k].end - timeline[1][k].start >= FrameTicks

\* C5: when the returned timeline has an item, the last item ends at the
\* quantized audio duration.
C5_LastEndIsAudioEnd ==
    (timeline # None /\ timeline[1] # <<>>) =>
        timeline[1][Len(timeline[1])].end = q(audio_dur)

\* C5 witness: a timeline returned with an item whose trailing phrase was
\* dropped, so that its end had to be clamped.
C5_Witness ==
    /\ timeline # None
    /\ timeline[1] # <<>>
    /\ Len(timeline[1]) < Len(matches)
    /\ ~KeptInTimeline(matches[Len(matches)])
    /\ items[Len(items)].end = q(audio_dur)

\* C6: the timeline of a non-empty chronological list of phrases covers the
\* audio: the durations add up to the quantized audio duration and the first
\* item starts within one frame of 0.
C6_Coverage ==
    (timeline # None /\ matches # <<>> /\ NonDecreasingStarts(matches)) =>
        /\ SumOfDurations(timeline[1]) = q(audio_dur)
        /\ timeline[1] # <<>> => timeline[1][1].start <= FrameTicks

\* C7 as stated: the images of the items are the images of all the phrases,
\* in the same order and number.
C7_AllImagesInOrder ==
    timeline # None => ImagesOf(timeline[1]) = ImagesOf(matches)

\* C7: the images of the items are the images of the phrases that are kept
\* (those not starting past the audio end), in the same order.
C7_KeptImagesInOrder ==
    timeline # None =>
        ImagesOf(timeline[1]) = ImagesOf(SelectSeq(matches, KeptInTimeline))

\* C7 witness: a timeline returned with two items or more and a phrase left out.
C7_Witness ==
    /\ timeline # None
    /\ Len(timeline[1]) >= 2
    /\ Len(timeline[1]) < Len(matches)

\* the items emitted for the match of phrase number n (from 0)
ItemsOfPhrase(n) ==
    SelectSeq(timeline[1], LAMBDA it : it.source.phrase_index = n)

\* C14: when two consecutive phrases start in the same frame and the first
\* of them is kept, its item ends exactly one frame after it starts.
C14_SameFrameGetsOneFrame ==
    timeline # None =>
        \A k \in 1..(Len(matches) - 1) :
            (q(matches[k].start) = q(matches[k + 1].start)
                /\ KeptInTimeline(matches[k]))
            => \A n \in 1..Len(ItemsOfPhrase(k - 1)) :
                  ItemsOfPhrase(k - 1)[n].end =
                      ItemsOfPhrase(k - 1)[n].start + FrameTicks

\* the phrase numbers of the items, in order
PhraseIndexesOf(list) == [k \in 1..Len(list) |-> list[k].source.phrase_index]

\* the phrase numbers of the matches, in order
IndexesOf(list) == [k \in 1..Len(list) |-> list[k].index]

\* C20: the items are those of the kept phrases, one each and in order, and
\* none is of a phrase whose quantized start is past the audio; each item
\* starts at its phrase's quantized start, or at 0 when that is negative.
C20_OneItemPerKeptPhrase ==
    timeline # None =>
        /\ PhraseIndexesOf(timeline[1]) =
              IndexesOf(SelectSeq(matches, KeptInTimeline))
        /\ \A k \in 1..Len(timeline[1]) :
              /\ timeline[1][k].start >= 0
              /\ \E n \in 1..Len(matches) :
                    /\ matches[n].index = timeline[1][k].source.phrase_index
                    /\ timeline[1][k].start =
                          (IF q(matches[n].start) < 0 THEN 0 ELSE q(matches[n].start))
                    /\ q(matches[n].start) <= audio_dur

\* C20 witness: a timeline returned for three phrases of which the first
\* starts before 0 and the last past the audio end.
C20_Witness ==
    /\ timeline # None
    /\ Len(matches) = 3
    /\ q(matches[1].start) < 0
    /\ ~KeptInTimeline(matches[3])
    /\ Len(timeline[1]) = 2
    /\ timeline[1][1].start = 0

\* C21: no item of the returned timeline ends after the quantized audio
\* duration, whether that lies before or after the audio duration.
C21_NoEndPastQuantizedAudio ==
    timeline # None =>
        \A k \in 1..Len(timeline[1]) : timeline[1][k].end <= q(audio_dur)

\* C21 witness: the quantized audio duration is past the audio duration,
\* and a timeline is returned with the item of a phrase whose successor
\* starts past both.
C21_Witness ==
    /\ timeline # None
    /\ q(audio_dur) > audio_dur
    /\ \E k \in 1..(Len(matches) - 1) :
          /\ KeptInTimeline(matches[k])
          /\ q(matches[k + 1].start) > q(audio_dur)
          /\ \E n \in 1..Len(timeline[1]) :
                /\ timeline[1][n].source.phrase_index = matches[k].index
                /\ timeline[1][n].end = q(audio_dur)

\* C21 second case: the same with the quantized audio duration before the
\* audio duration.
C21_WitnessRoundedDown ==
    /\ timeline # None
    /\ q(audio_dur) < audio_dur
    /\ \E k \in 1..(Len(matches) - 1) :
          /\ KeptInTimeline(matches[k])
          /\ q(matches[k + 1].start) > audio_dur
          /\ \E n \in 1..Len(timeline[1]) :
                /\ timeline[1][n].source.phrase_index = matches[k].index
                /\ timeline[1][n].end = q(audio_dur)

(***************************************************************************)
(* Properties of resolve_phrase_start_times and of the whole run, checked  *)
(* under Spec.                                                             *)
(***************************************************************************)
\* every window the search may look at, as <<length, starting word>>: every
\* length allowed for the phrase, every start that keeps it in the range rg
CandidateWindows(phrase_norm, rg) ==
    {w \in (min_len(Len(Split(phrase_norm)))..max_len(Len(Split(phrase_norm))))
           \X (Max2(0, rg.search_start)..Min2(Len(words_norm), rg.search_end)) :
        w[2] + w[1] <= Min2(Len(words_norm), rg.search_end)}

TokenSetScoreOf(phrase_norm, w) ==
    token_set_ratio(phrase_norm, WindowText(words_norm, w[2], w[1]))

EditScoreOf(phrase_norm, w) ==
    ratio(phrase_norm, WindowText(words_norm, w[2], w[1]))

\* the candidates whose token-set score is at or above the threshold
SurvivingWindows(phrase_norm, rg) ==
    {w \in CandidateWindows(phrase_norm, rg) :
        TokenSetScoreOf(phrase_norm, w) >= similarity_threshold}

\* window a comes before window b in the priority: higher token-set score,
\* then higher edit score, then earlier start, then shorter
Beats(phrase_norm, a, b) ==
    \/ TokenSetScoreOf(phrase_norm, a) > TokenSetScoreOf(phrase_norm, b)
    \/ /\ TokenSetScoreOf(phrase_norm, a) = TokenSetScoreOf(phrase_norm, b)
       /\ \/ EditScoreOf(phrase_norm, a) > EditScoreOf(phrase_norm, b)
          \/ /\ EditScoreOf(phrase_norm, a) = EditScoreOf(phrase_norm, b)
             /\ \/ a[2] < b[2]
                \/ a[2] = b[2] /\ a[1] < b[1]

\* the window recorded for a resolved phrase
WindowOf(rp) == <<rp.match.word_len, rp.match.word_index>>

\* the search range of the phrase the loop is at
CurrentRange ==
    SearchRange(seg_norm, normalize_text(rules[idx + 1].text), cursor_word_idx,
                Len(words_norm), similarity_threshold)

\* C1: the matched word index of each resolved phrase is strictly greater
\* than that of the phrase before it, in the list being built and in the
\* list returned.
C1_MonotonicCursor ==
    /\ \A k \in 1..(Len(resolved) - 1) :
          resolved[k + 1].match.word_index > resolved[k].match.word_index
    /\ result # None =>
          \A k \in 1..(Len(result[1]) - 1) :
              result[1][k + 1].match.word_index > result[1][k].match.word_index

\* C1 witness: a list of two phrases or more is returned.
C1_Witness == result # None /\ Len(result[1]) >= 2

\* C2: when no window in the search range of the phrase at hand scores at or
\* above the threshold, the step raises the unresolved-phrase error with that
\* phrase's index and raw text, returns nothing, and nothing happens after it.
C2_AllOrNothing ==
    [][/\ (/\ pc = "align_loop"
           /\ idx < Len(rules)
           /\ SurvivingWindows(normalize_text(rules[idx + 1].text), CurrentRange) = {})
          => /\ pc' = "raised"
             /\ error' = Some([type |-> "unresolved",
                               index |-> idx,
                               phrase |-> rules[idx + 1].text,
                               threshold |-> similarity_threshold])
             /\ result' = None
             /\ idx' = idx
             /\ resolved' = resolved
       /\ pc = "raised" => UNCHANGED vars]_vars

\* C2 witness: the second phrase is unresolved after the first was resolved,
\* and nothing is returned.
C2_Witness ==
    /\ pc = "raised"
    /\ error # None
    /\ error[1].type = "unresolved"
    /\ error[1].index = 1
    /\ Len(resolved) = 1
    /\ result = None

\* the run is the reference scenario
IsReference ==
    /\ rules = ReferenceScenario.rules
    /\ transcript = ReferenceScenario.transcript
    /\ similarity_threshold = ReferenceScenario.similarity_threshold
    /\ audio_dur = ReferenceScenario.audio_dur
    /\ fps = ReferenceScenario.fps

StartsOf(list) == [k \in 1..Len(list) |-> list[k].start]

\* the start, end and image of every item
IntervalsOf(list) ==
    [k \in 1..Len(list) |->
        [start |-> list[k].start, end |-> list[k].end, image |-> list[k].image]]

\* C8: in the reference scenario the resolved starts are 0.0 and
\* 5.5 seconds and the items are a.png over [0.0, 5.5] and b.png over
\* [5.5, 6.0].
C8_ReferenceScenario ==
    IsReference =>
        /\ result # None => StartsOf(result[1]) = <<0, 660>>
        /\ timeline # None =>
              IntervalsOf(timeline[1]) =
                  <<[start |-> 0, end |-> 660, image |-> "a.png"],
                    [start |-> 660, end |-> 720, image |-> "b.png"]>>

\* C9: the window recorded for each resolved phrase clears the threshold in
\* the range that was searched, carries its own scores, and comes before
\* every other such window in the priority (token-set score, edit score,
\* earliest start, shortest length).
C9_BestByPriority ==
    \A k \in 1..Len(resolved) :
        /\ WindowOf(resolved[k])
              \in SurvivingWindows(normalize_text(rules[k].text), range_log[k])
        /\ resolved[k].similarity.token_set_ratio =
              TokenSetScoreOf(normalize_text(rules[k].text), WindowOf(resolved[k]))
        /\ resolved[k].similarity.ratio =
              EditScoreOf(normalize_text(rules[k].text), WindowOf(resolved[k]))
        /\ \A w \in SurvivingWindows(normalize_text(rules[k].text), range_log[k])
                       \ {WindowOf(resolved[k])} :
              Beats(normalize_text(rules[k].text), WindowOf(resolved[k]), w)

\* C9 witness: a phrase was resolved where another window tied with the
\* chosen one on both scores.
C9_Witness ==
    \E k \in 1..Len(resolved) :
        \E w \in SurvivingWindows(normalize_text(rules[k].text), range_log[k])
                    \ {WindowOf(resolved[k])} :
            /\ TokenSetScoreOf(normalize_text(rules[k].text), w) =
                  resolved[k].similarity.token_set_ratio
            /\ EditScoreOf(normalize_text(rules[k].text), w) =
                  resolved[k].similarity.ratio

\* C10: a returned list has one resolved phrase per rule, in rule order, with
\* non-decreasing starts; once every phrase is resolved, a start that
\* precedes its predecessor's gives the ordering error and no list, and that
\* error is given for no other reason.
C10_OnePerRuleInOrder ==
    /\ result # None =>
          /\ Len(result[1]) = Len(rules)
          /\ \A k \in 1..Len(rules) :
                /\ result[1][k].index = k - 1
                /\ result[1][k].image = rules[k].image
                /\ result[1][k].text = rules[k].text
          /\ \A k \in 1..(Len(rules) - 1) :
                result[1][k].start <= result[1][k + 1].start
    /\ (/\ pc \notin {"align_entry", "align_loop"}
        /\ Len(resolved) = Len(rules)
        /\ \E k \in 1..(Len(resolved) - 1) :
              resolved[k + 1].start < resolved[k].start)
          => /\ pc = "raised"
             /\ error = Some([type |-> "not_monotonic"])
             /\ result = None
    /\ (pc = "raised" /\ error = Some([type |-> "not_monotonic"]))
          => /\ result = None
             /\ Len(resolved) = Len(rules)
             /\ \E k \in 1..(Len(resolved) - 1) :
                   resolved[k + 1].start < resolved[k].start

\* C10 witness: every phrase was resolved and the ordering error was raised.
C10_Witness ==
    /\ pc = "raised"
    /\ error = Some([type |-> "not_monotonic"])
    /\ Len(resolved) = Len(rules)
    /\ Len(rules) >= 2

\* the transcript's word start times never go down
WordStartsNonDecreasing ==
    \A k \in 1..(Len(transcript.words) - 1) :
        transcript.words[k].start <= transcript.words[k + 1].start

\* C22: with word start times that never go down the run never raises the
\* ordering-violation error: the error means that some word starts before
\* an earlier word does.
C22_OrderErrorNeedsUnorderedWords ==
    WordStartsNonDecreasing => error # Some([type |-> "not_monotonic"])

\* C22 witness: word start times that never go down, two of them equal, and
\* the post-pass check has let through two phrases resolved at words that
\* start at the same time.
C22_Witness ==
    /\ WordStartsNonDecreasing
    /\ result # None
    /\ \E k \in 1..(Len(result[1]) - 1) :
          /\ result[1][k].match.word_index < result[1][k + 1].match.word_index
          /\ result[1][k].start = result[1][k + 1].start

\* the number of tokens of the phrase of pass k
PhraseLenOf(pass) == Len(Split(normalize_text(rules[pass].text)))

\* the number of words in the range that pass k searched
RangeSizeOf(pass) ==
    Min2(range_log[pass].search_end, Len(words_norm))
        - Max2(range_log[pass].search_start, 0)

\* pass k ended with the unresolved-phrase error for its phrase
EndedUnresolved(pass) ==
    /\ pass = Len(range_log)
    /\ Len(resolved) = pass - 1
    /\ pc = "raised"
    /\ error = Some([type |-> "unresolved",
                     index |-> pass - 1,
                     phrase |-> rules[pass].text,
                     threshold |-> similarity_threshold])
    /\ result = None

\* C23: a pass whose search range holds fewer words than
\* max(3, round(0.75 * phrase_len)) ends with the unresolved-phrase error,
\* whatever the words of the range are.
C23_ShortRangeIsUnresolved ==
    \A k \in 1..Len(range_log) :
        (\/ RangeSizeOf(k) < 3
         \/ RangeSizeOf(k) < PyRound(3 * PhraseLenOf(k), 4))
            => EndedUnresolved(k)

\* C23 witness: the words of the range, one or two, are exactly the phrase,
\* and the pass ended with the unresolved-phrase error.
C23_Witness ==
    \E k \in 1..Len(range_log) :
        /\ RangeSizeOf(k) \in {1, 2}
        /\ range_log[k].search_end = Len(words_norm)
        /\ Join(SubSeq(words_norm, range_log[k].search_start + 1, Len(words_norm)))
              = normalize_text(rules[k].text)
        /\ EndedUnresolved(k)

\* C23 second case: three words searched for a phrase of five tokens, whose
\* shortest window has four words.
C23_WitnessLongPhrase ==
    \E k \in 1..Len(range_log) :
        /\ RangeSizeOf(k) = 3
        /\ PhraseLenOf(k) = 5
        /\ similarity_threshold = 0
        /\ EndedUnresolved(k)

\* C24: a rule whose text normalizes to no token is never resolved: the
\* pass that reaches it ends with the unresolved-phrase error for it,
\* whatever the transcript and the threshold, and no record is made for it.
C24_NoTokenRuleIsUnresolved ==
    /\ \A k \in 1..Len(range_log) : PhraseLenOf(k) = 0 => EndedUnresolved(k)
    /\ \A k \in 1..Len(resolved) : Split(normalize_text(resolved[k].text)) # <<>>
    /\ result # None =>
          \A k \in 1..Len(rules) : Split(normalize_text(rules[k].text)) # <<>>

\* C24 witness: at threshold 0 a rule of punctuation only, after a rule
\* that was resolved, ended the run with the unresolved-phrase error though
\* three words or more were left to search.
C24_Witness ==
    \E k \in 2..Len(range_log) :
        /\ similarity_threshold = 0
        /\ rules[k].text # <<>>
        /\ PhraseLenOf(k) = 0
        /\ RangeSizeOf(k) >= 3
        /\ EndedUnresolved(k)

\* the shortest and the longest window of a phrase of n tokens
ShortestWindow(n) == IF PyRound(3 * n, 4) > 3 THEN PyRound(3 * n, 4) ELSE 3

LongestWindow(n) ==
    IF PyRound(5 * n, 4) + 2 > ShortestWindow(n) THEN PyRound(5 * n, 4) + 2
    ELSE ShortestWindow(n)

\* C25: the window of every resolved phrase lies in the range searched for
\* it and in the transcript: the cursor is not after the range's start nor
\* that after the window's first word, the window ends by the range's end
\* and by the last word, its length is one allowed for the phrase, and the
\* start recorded is the start time of its first word.
C25_WindowInsideRange ==
    \A k \in 1..Len(resolved) :
        /\ range_log[k].cursor <= range_log[k].search_start
        /\ range_log[k].search_start <= resolved[k].match.word_index
        /\ resolved[k].match.word_index + resolved[k].match.word_len
              <= range_log[k].search_end
        /\ resolved[k].match.word_index + resolved[k].match.word_len
              <= Len(transcript.words)
        /\ resolved[k].match.word_len >= ShortestWindow(PhraseLenOf(k))
        /\ resolved[k].match.word_len <= LongestWindow(PhraseLenOf(k))
        /\ resolved[k].start
              = transcript.words[resolved[k].match.word_index + 1].start

\* C25 witness: a phrase resolved in a range that begins after the cursor,
\* at a window that begins after the range does and ends with it.
C25_Witness ==
    \E k \in 1..Len(resolved) :
        /\ range_log[k].search_start > range_log[k].cursor
        /\ resolved[k].match.word_index > range_log[k].search_start
        /\ resolved[k].match.word_index + resolved[k].match.word_len
              = range_log[k].search_end

\* C25 second case: a window longer than the shortest allowed.
C25_WitnessLongerWindow ==
    \E k \in 1..Len(resolved) :
        resolved[k].match.word_len > ShortestWindow(PhraseLenOf(k))

\* C11: a transcript without words makes the run fail at once with the
\* missing-word-timestamps error, whatever the rule list: no phrase is
\* examined, nothing is resolved and nothing is returned.
C11_NoWordsIsFatal ==
    (transcript.words = <<>> /\ pc # "align_entry")
        => /\ pc = "raised"
           /\ error = Some([type |-> "no_words"])
           /\ idx = 0
           /\ resolved = <<>>
           /\ range_log = <<>>
           /\ result = None

\* C11 witness: the run of two rules on a transcript without words has failed.
C11_Witness ==
    /\ transcript.words = <<>>
    /\ Len(rules) = 2
    /\ pc = "raised"
    /\ error = Some([type |-> "no_words"])

\* the word indices of the window matched for a resolved phrase
WindowWords(rp) ==
    rp.match.word_index..(rp.match.word_index + rp.match.word_len - 1)

\* C15 as stated: the windows matched for two consecutive resolved phrases
\* have no word in common.
C15_WindowsDisjoint ==
    \A k \in 1..(Len(resolved) - 1) :
        WindowWords(resolved[k]) \cap WindowWords(resolved[k + 1]) = {}

\* C15: the search for phrase k starts at the word after the first word of
\* the window of phrase k-1, so the window of phrase k holds neither that
\* first word nor any word before it; it may hold the later words of the
\* window of phrase k-1.
C15_WindowAfterPreviousStart ==
    \A k \in 1..(Len(resolved) - 1) :
        /\ range_log[k + 1].cursor = resolved[k].match.word_index + 1
        /\ range_log[k + 1].search_start >= range_log[k + 1].cursor
        /\ \A w \in WindowWords(resolved[k + 1]) :
              /\ w >= range_log[k + 1].search_start
              /\ w > resolved[k].match.word_index
              /\ w < Len(words_norm)

\* C15 witness: two phrases are resolved and the window of the second
\* holds words of the window of the first.
C15_Witness ==
    /\ result # None
    /\ Len(resolved) = 2
    /\ WindowWords(resolved[1]) \cap WindowWords(resolved[2]) # {}

(***************************************************************************)
(* normalize_text on its own: every string within the bounds, normalized   *)
(* and then normalized again.                                              *)
(***************************************************************************)
\* the longest string given to normalize_text
MaxTextLen == 4

\* "A", "b", "9", "-", the space and the tab
Characters == {65, 98, 57, 45, 32, 9}

InitNormalize ==
    /\ norm_in \in SeqsUpTo(Characters, MaxTextLen)
    /\ norm_out = <<>>
    /\ pc = "normalize"
    /\ rules = <<>>
    /\ transcript = [words |-> <<>>, segments |-> <<>>]
    /\ similarity_threshold = 85
    /\ audio_dur = 0
    /\ fps = 4
    /\ words_raw = <<>>
    /\ words_norm = <<>>
    /\ words_start = <<>>
    /\ seg_norm = <<>>
    /\ cursor_word_idx = 0
    /\ idx = 0
    /\ resolved = <<>>
    /\ range_log = <<>>
    /\ error = None
    /\ result = None
    /\ matches = <<>>
    /\ i = 0
    /\ items = <<>>
    /\ timeline = None
    /\ ref_segments = <<>>
    /\ ref_idx = 0
    /\ refined = <<>>
    /\ ref_result = None
    /\ ref_log = <<>>

\* one call of normalize_text: on the string given, then on its own result
NormalizeCall ==
    /\ pc = "normalize"
    /\ Len(norm_out) < 2
    /\ norm_out' = Append(norm_out,
                          normalize_text(IF norm_out = <<>> THEN norm_in
                                         ELSE norm_out[Len(norm_out)]))
    /\ UNCHANGED <<inputs, align_locals, timeline_locals, refine_locals,
                   pc, error, result, norm_in>>

NextNormalize == NormalizeCall

SpecNormalize == InitNormalize /\ [][NextNormalize]_vars

\* only a-z, 0-9 and single spaces, none of them first or last
IsNormalized(t) ==
    /\ \A k \in 1..Len(t) :
          \/ t[k] >= 97 /\ t[k] <= 122
          \/ t[k] >= 48 /\ t[k] <= 57
          \/ t[k] = 32
    /\ t # <<>> => t[1] # 32 /\ t[Len(t)] # 32
    /\ \A k \in 1..(Len(t) - 1) : ~(t[k] = 32 /\ t[k + 1] = 32)

\* C13: normalize_text returns for every string (a call is always possible),
\* its result holds only a-z, 0-9 and single spaces with none at either end,
\* and normalizing the result again gives the result itself.
C13_NormalizeIdempotent ==
    /\ (pc = "normalize" /\ Len(norm_out) < 2) => ENABLED NormalizeCall
    /\ \A k \in 1..Len(norm_out) : IsNormalized(norm_out[k])
    /\ Len(norm_out) = 2 => norm_out[2] = norm_out[1]

\* C13 witness: "A-<tab>b" was normalized to "a b", and that again.
C13_Witness ==
    /\ norm_in = <<65, 45, 9, 98>>
    /\ Len(norm_out) = 2
    /\ norm_out[1] = <<97, 32, 98>>

(***************************************************************************)
(* refine_segments_sentence_split (src/src/segment_refine.py).             *)
(* A time of a segment is a float in [4096, 8192) seconds, held as the     *)
(* number of steps of 2^-40 s above 4096 s: 2^-40 s is the spacing of the  *)
(* doubles there, so every float of the range is such a number, the        *)
(* difference of two of them is exact, and a sum is rounded to the nearest *)
(* step, a tie to the even one.                                            *)
(***************************************************************************)
\* 1e-3 s in steps of 2^-40 s, as part_start + 1e-3 rounds it
EpsilonSteps == 1099511628

\* [.!?], the lookbehind of _SENT_SPLIT_RE
IsSentenceEnd(c) == c \in {46, 33, 63}

\* position k of s is in a match of _SENT_SPLIT_RE: in a run of whitespace
\* that begins right after one of [.!?]
InSentBreak(s, k) ==
    \E a \in 2..k :
        /\ IsSentenceEnd(s[a - 1])
        /\ \A m \in a..k : IsSpace(s[m])

\* the positions of s where a piece of _SENT_SPLIT_RE.split(s) begins
PieceStarts(s) ==
    SelectSeq([k \in 1..Len(s) |-> k],
              LAMBDA k : ~InSentBreak(s, k) /\ (k = 1 \/ InSentBreak(s, k - 1)))

\* where the piece that begins at position a ends
PieceEnd(s, a) ==
    CHOOSE e \in a..Len(s) :
        /\ \A m \in a..e : ~InSentBreak(s, m)
        /\ e = Len(s) \/ InSentBreak(s, e + 1)

\* line 45: [p.strip() for p in _SENT_SPLIT_RE.split(text_raw) if p.strip()]
PartsOf(text_raw) ==
    SelectSeq([n \in 1..Len(PieceStarts(text_raw)) |->
                  Strip(SubSeq(text_raw, PieceStarts(text_raw)[n],
                               PieceEnd(text_raw, PieceStarts(text_raw)[n])))],
              LAMBDA p : p # <<>>)

RECURSIVE SumOfLengths(_, _)
\* line 51: sum(len(p) for p in parts), from part k on
SumOfLengths(parts, k) ==
    IF k > Len(parts) THEN 0 ELSE Len(parts[k]) + SumOfLengths(parts, k + 1)

\* lines 62-65: cur_t + dur * (len(p) / total_len) as a float; the product
\* is within 2^-51 of the exact quotient of its size, so the sum rounds as
\* the exact quotient does
PartEndUnforced(seg, cur_t, part_len, total_len, is_last) ==
    IF is_last THEN seg.end
    ELSE PyRound(cur_t * total_len + (seg.end - seg.start) * part_len, total_len)

\* lines 67-69: enforce monotonicity
PartEndOf(seg, cur_t, part_len, total_len, is_last) ==
    IF PartEndUnforced(seg, cur_t, part_len, total_len, is_last) <= cur_t
    THEN Min2(seg.end, cur_t + EpsilonSteps)
    ELSE PartEndUnforced(seg, cur_t, part_len, total_len, is_last)

RECURSIVE AllocateParts(_, _, _, _, _, _)
\* lines 61-73: the records of the parts from part k on
AllocateParts(seg, parts, total_len, k, cur_t, next_id) ==
    IF k > Len(parts) THEN <<>>
    ELSE <<[id |-> next_id,
            start |-> cur_t,
            end |-> PartEndOf(seg, cur_t, Len(parts[k]), total_len, k = Len(parts)),
            text |-> parts[k]]>>
         \o AllocateParts(seg, parts, total_len, k + 1,
                PartEndOf(seg, cur_t, Len(parts[k]), total_len, k = Len(parts)),
                next_id + 1)

\* lines 36-73: what one pass of the loop appends to refined
SegmentOutput(seg, next_id) ==
    IF Strip(seg.text) = <<>> THEN <<>>
    ELSE IF seg.end <= seg.start THEN <<>>
    ELSE IF Len(PartsOf(Strip(seg.text))) <= 1
              \/ SumOfLengths(PartsOf(Strip(seg.text)), 1) <= 0
         THEN <<[id |-> next_id, start |-> seg.start, end |-> seg.end,
                 text |-> Strip(seg.text)]>>
         ELSE AllocateParts(seg, PartsOf(Strip(seg.text)),
                            SumOfLengths(PartsOf(Strip(seg.text)), 1),
                            1, seg.start, next_id)

\* the sort key (s["start"], s["id"]) of a comes before that of b
SortKeyLess(a, b) == a.start < b.start \/ (a.start = b.start /\ a.id < b.id)

\* line 76: refined.sort(key=lambda s: (s["start"], s["id"]))
SortedRefined(list) ==
    [n \in 1..Len(list) |->
        CHOOSE r \in Range(list) :
            Cardinality({x \in Range(list) : SortKeyLess(x, r)}) = n - 1]

\* "A. B.", "Ab. C! D?", "A.  B.<tab>C. D. E.", "No split", two spaces,
\* "a.b. C." and " Hi! Yo. "
RefineTexts ==
    { <<65, 46, 32, 66, 46>>,
      <<65, 98, 46, 32, 67, 33, 32, 68, 63>>,
      <<65, 46, 32, 32, 66, 46, 9, 67, 46, 32, 68, 46, 32, 69, 46>>,
      <<78, 111, 32, 115, 112, 108, 105, 116>>,
      <<32, 32>>,
      <<97, 46, 98, 46, 32, 67, 46>>,
      <<32, 72, 105, 33, 32, 89, 111, 46, 32>> }

\* where a segment starts, in steps above 4096 s
RefineStarts == {0, 3}

\* end - start of a segment, in steps
RefineSpans == {-1, 0, 1, 2, 3, 5, 8}

\* the segments a transcript may hold
RefineSegments ==
    {[text |-> t, start |-> s, end |-> s + d] :
        t \in RefineTexts, s \in RefineStarts, d \in RefineSpans}

\* the number of segments of a transcript
RefineCounts == {0, 1, 2}

InitRefine ==
    /\ pc = "refine"
    /\ ref_segments \in UNION {[1..k -> RefineSegments] : k \in RefineCounts}
    /\ ref_idx = 0
    /\ refined = <<>>
    /\ ref_result = None
    /\ ref_log = <<>>
    /\ norm_in = <<>>
    /\ norm_out = <<>>
    /\ rules = <<>>
    /\ transcript = [words |-> <<>>, segments |-> <<>>]
    /\ similarity_threshold = 85
    /\ audio_dur = 0
    /\ fps = 4
    /\ words_raw = <<>>
    /\ words_norm = <<>>
    /\ words_start = <<>>
    /\ seg_norm = <<>>
    /\ cursor_word_idx = 0
    /\ idx = 0
    /\ resolved = <<>>
    /\ range_log = <<>>
    /\ error = None
    /\ result = None
    /\ matches = <<>>
    /\ i = 0
    /\ items = <<>>
    /\ timeline = None

\* lines 35-73: one pass of the loop over the segments
RefineSegment ==
    /\ pc = "refine"
    /\ ref_idx < Len(ref_segments)
    /\ refined' = refined \o SegmentOutput(ref_segments[ref_idx + 1], Len(refined))
    /\ ref_log' = Append(ref_log,
                         [first |-> Len(refined),
                          count |-> Len(SegmentOutput(ref_segments[ref_idx + 1],
                                                      Len(refined)))])
    /\ ref_idx' = ref_idx + 1
    /\ UNCHANGED <<inputs, align_locals, timeline_locals, normalize_locals,
                   pc, error, result, ref_segments, ref_result>>

\* lines 75-77: the sort and the return
FinishRefine ==
    /\ pc = "refine"
    /\ ref_idx = Len(ref_segments)
    /\ ref_result' = Some(SortedRefined(refined))
    /\ pc' = "refine_done"
    /\ UNCHANGED <<inputs, align_locals, timeline_locals, normalize_locals,
                   error, result, ref_segments, ref_idx, refined, ref_log>>

NextRefine == RefineSegment \/ FinishRefine

SpecRefine == InitRefine /\ [][NextRefine]_vars

\* the records that pass k of the loop appended, in the order it made them
PartsOfPass(k) ==
    SubSeq(refined, ref_log[k].first + 1, ref_log[k].first + ref_log[k].count)

\* where the record of the given id is in the list returned
PlaceOf(list, id) == CHOOSE n \in 1..Len(list) : list[n].id = id

\* C17: the records made from a segment with end > start whose text splits
\* into two parts or more carry the parts' texts in order, the first starts
\* at the segment's start, each ends where the next starts, the last ends
\* at the segment's end, each has end > start and lies within the segment,
\* and the list returned keeps them in that order.
C17_RefinerPartitionsSegment ==
    \A k \in 1..Len(ref_log) :
        (/\ ref_segments[k].end > ref_segments[k].start
         /\ Len(PartsOf(Strip(ref_segments[k].text))) >= 2)
        => /\ [n \in 1..ref_log[k].count |-> PartsOfPass(k)[n].text]
                 = PartsOf(Strip(ref_segments[k].text))
           /\ PartsOfPass(k)[1].start = ref_segments[k].start
           /\ \A n \in 1..(ref_log[k].count - 1) :
                 PartsOfPass(k)[n].end = PartsOfPass(k)[n + 1].start
           /\ PartsOfPass(k)[ref_log[k].count].end = ref_segments[k].end
           /\ \A n \in 1..ref_log[k].count :
                 /\ PartsOfPass(k)[n].end > PartsOfPass(k)[n].start
                 /\ PartsOfPass(k)[n].start >= ref_segments[k].start
                 /\ PartsOfPass(k)[n].end <= ref_segments[k].end
           /\ ref_result # None =>
                 \A n \in 1..(ref_log[k].count - 1) :
                     PlaceOf(ref_result[1], PartsOfPass(k)[n].id)
                         < PlaceOf(ref_result[1], PartsOfPass(k)[n + 1].id)

\* the range from the cursor of pass k to the end of the transcript
UnrestrictedRange(pass) ==
    [search_start |-> range_log[pass].cursor, search_end |-> Len(words_norm)]

\* C16: every pass of the loop ends as it would with the whole range from
\* the cursor to the end of the transcript: a resolved phrase has the window
\* that is best in that range, and a phrase is unresolved only when no
\* window of that range reaches the threshold.
C16_SegmentsDoNotChangeOutcome ==
    \A k \in 1..Len(range_log) :
        IF k <= Len(resolved)
        THEN /\ WindowOf(resolved[k])
                   \in SurvivingWindows(normalize_text(rules[k].text),
                                        UnrestrictedRange(k))
             /\ \A w \in SurvivingWindows(normalize_text(rules[k].text),
                                          UnrestrictedRange(k))
                            \ {WindowOf(resolved[k])} :
                   Beats(normalize_text(rules[k].text), WindowOf(resolved[k]), w)
        ELSE SurvivingWindows(normalize_text(rules[k].text),
                              UnrestrictedRange(k)) = {}

\* the coarse locator may take the segment at position pos in this pass:
\* the segment ends after the cursor
IsEligible(pass, pos) == seg_norm[pos].word_end > range_log[pass].cursor

SegmentScoreOf(pass, pos) ==
    token_set_ratio(normalize_text(rules[pass].text), seg_norm[pos].text_norm)

\* C18: in every pass the coarse locator's answer is, among the segments
\* that end after the cursor, the first of those with the highest token-set
\* score, with that score; it is no segment when none ends after the cursor.
C18_BestSegmentIsFirstHighest ==
    \A k \in 1..Len(range_log) :
        IF \A j \in 1..Len(seg_norm) : ~IsEligible(k, j)
        THEN range_log[k].best_seg = None
        ELSE \E j \in 1..Len(seg_norm) :
                /\ IsEligible(k, j)
                /\ range_log[k].best_seg = Some(seg_norm[j])
                /\ range_log[k].best_seg_score = SegmentScoreOf(k, j)
                /\ \A n \in 1..Len(seg_norm) :
                      IsEligible(k, n) =>
                          /\ SegmentScoreOf(k, n) <= SegmentScoreOf(k, j)
                          /\ SegmentScoreOf(k, n) = SegmentScoreOf(k, j) => j <= n

\* C18 witness: in the second pass a segment that ends at the cursor is left
\* out and two of the others tie on the highest score.
C18_Witness ==
    /\ Len(range_log) >= 2
    /\ \E j \in 1..Len(seg_norm) : ~IsEligible(2, j)
    /\ \E j \in 1..Len(seg_norm), n \in 1..Len(seg_norm) :
          /\ j < n
          /\ IsEligible(2, j)
          /\ IsEligible(2, n)
          /\ range_log[2].best_seg = Some(seg_norm[j])
          /\ SegmentScoreOf(2, n) = SegmentScoreOf(2, j)

\* C19: in every pass, when the coarse locator gave a segment with a score
\* of at least max(40, threshold - 15) the range searched is
\* [max(cursor, word_start - 20), min(word_count, word_end + 20)), and
\* otherwise [cursor, word_count); it never begins before the cursor nor
\* ends past word_count.
C19_SearchRange ==
    \A k \in 1..Len(range_log) :
        /\ IF /\ range_log[k].best_seg # None
              /\ range_log[k].best_seg_score >= 40
              /\ range_log[k].best_seg_score >= similarity_threshold - 15
           THEN /\ range_log[k].search_start >= range_log[k].cursor
                /\ range_log[k].search_start >= range_log[k].best_seg[1].word_start - 20
                /\ range_log[k].search_start
                      \in {range_log[k].cursor, range_log[k].best_seg[1].word_start - 20}
                /\ range_log[k].search_end <= Len(words_norm)
                /\ range_log[k].search_end <= range_log[k].best_seg[1].word_end + 20
                /\ range_log[k].search_end
                      \in {Len(words_norm), range_log[k].best_seg[1].word_end + 20}
           ELSE /\ range_log[k].search_start = range_log[k].cursor
                /\ range_log[k].search_end = Len(words_norm)
        /\ range_log[k].search_start >= range_log[k].cursor
        /\ range_log[k].search_end <= Len(words_norm)

\* C19 witness: a pass searched a range that begins after the cursor, 20
\* words before the segment taken, and ends with the transcript.
C19_Witness ==
    \E k \in 1..Len(range_log) :
        /\ range_log[k].best_seg # None
        /\ range_log[k].search_start > range_log[k].cursor
        /\ range_log[k].search_end = Len(words_norm)
        /\ range_log[k].search_end < range_log[k].best_seg[1].word_end + 20

\* C19 second case: a pass searched a range that ends before the last word.
C19_WitnessEndsEarly ==
    \E k \in 1..Len(range_log) :
        /\ range_log[k].best_seg # None
        /\ range_log[k].search_end < Len(words_norm)
        /\ range_log[k].search_start = range_log[k].cursor

=============================================================================
